---- MODULE Spec2Model ----
(***************************************************************************)
(* Model of OrcaBaseParser.parse (aiida_orca/parsers/__init__.py).         *)
(*                                                                         *)
(* One behaviour is one invocation of parse.  The inputs of the invocation *)
(* (whether the retrieved folder exists, which files it lists, what the    *)
(* log reader does with the primary log, and the record the reader hands   *)
(* back) are chosen in Init and never change; the other variables are the  *)
(* local state of the invocation and the effects it has had so far.        *)
(***************************************************************************)
EXTENDS Integers, Sequences, FiniteSets, TLC

VARIABLES
    retrieved_exists,  \* input: self.retrieved resolves (no NotExistent)
    folder,            \* input: out_folder._repository.list_object_names()
    reader_outcome,    \* input: what ccread(...).getattributes() does
    log_record,        \* input: the dict getattributes() returns
    pc,                \* position of the invocation in parse
    parsed_dict,       \* parsed_dict, and output_dict (the same object)
    outputs,           \* the calls self.out(label, value), in order
    opened,            \* the files opened through the folder, in order
    listed,            \* number of calls of list_object_names
    reader_calls,      \* number of calls of ccread
    result             \* how parse ended: a returned exit code or an exception

vars == <<retrieved_exists, folder, reader_outcome, log_record, pc,
          parsed_dict, outputs, opened, listed, reader_calls, result>>

(***************************************************************************)
(* Bounds of the model.                                                    *)
(***************************************************************************)
MaxLen == 2      \* longest float array of a record
MaxAtoms == 2    \* longest atomnos of a record

(***************************************************************************)
(* Floating point values.  A value is NaN, an infinity, or the finite      *)
(* number s * m * 10^e.                                                    *)
(***************************************************************************)
NaN == [k |-> "nan", s |-> 1, m |-> 0, e |-> 0]
Inf(sign) == [k |-> "inf", s |-> sign, m |-> 0, e |-> 0]
Fin(sign, mant, exp) == [k |-> "fin", s |-> sign, m |-> mant, e |-> exp]

isnan(x) == x.k = "nan"
isposinf(x) == x.k = "inf" /\ x.s = 1
isneginf(x) == x.k = "inf" /\ x.s = -1
isfinite(x) == x.k = "fin"

RECURSIVE Digits(_)
Digits(n) == IF n < 10 THEN 1 ELSE 1 + Digits(n \div 10)

RECURSIVE Pow10(_)
Pow10(n) == IF n = 0 THEN 1 ELSE 10 * Pow10(n - 1)

\* The five leading decimal digits of mant.
Lead5(mant) ==
    IF Digits(mant) <= 5 THEN mant * Pow10(5 - Digits(mant))
    ELSE mant \div Pow10(Digits(mant) - 5)

\* Whether mant * 10^exp lies above the largest float64,
\* 1.7976931348623157e308 (decided on five significant digits).
Overflows(mant, exp) ==
    /\ mant > 0
    /\ \/ exp + Digits(mant) - 1 > 308
       \/ exp + Digits(mant) - 1 = 308 /\ Lead5(mant) > 17976

\* The float64 a Python numeric literal sign * mant e exp evaluates to:
\* a literal beyond the float64 range evaluates to an infinity.
PyFloat(sign, mant, exp) ==
    IF Overflows(mant, exp) THEN Inf(sign) ELSE Fin(sign, mant, exp)


(***************************************************************************)
(* numpy.nan_to_num(x, nan=, posinf=, neginf=) on an array: an array whose *)
(* dtype is not inexact is returned as it is; in a float array every NaN,  *)
(* +inf and -inf entry is overwritten by the value given for it.           *)
(***************************************************************************)
nan_to_num(x, nan, posinf, neginf) ==
    IF x.dtype # "float64" THEN x
    ELSE [x EXCEPT !.val =
            [i \in 1..Len(x.val) |->
                IF isnan(x.val[i]) THEN nan
                ELSE IF isposinf(x.val[i]) THEN posinf
                ELSE IF isneginf(x.val[i]) THEN neginf
                ELSE x.val[i]]]

\* The literal given for nan= in _remove_nan.
NanSentinel == 123456789

\* Variant of non_nan_value with the values for nan= and posinf= exchanged.
non_nan_value_Swapped(value) ==
    nan_to_num(value, PyFloat(1, 2, 308), PyFloat(1, NanSentinel, 0), PyFloat(-1, 2, 308))

\* non_nan_value = np.nan_to_num(value, nan=123456789, posinf=2e308, neginf=-2e308)
non_nan_value(value) ==
    nan_to_num(value, PyFloat(1, NanSentinel, 0), PyFloat(1, 2, 308), PyFloat(-1, 2, 308))

isinstance_ndarray(value) == value.type = "ndarray"

\* _remove_nan: every ndarray value of the dict is replaced by its
\* non_nan_value; every other value, and the set of keys, is left alone.
_remove_nan(parsed_dictionary) ==
    [key \in DOMAIN parsed_dictionary |->
        IF isinstance_ndarray(parsed_dictionary[key])
        THEN non_nan_value(parsed_dictionary[key])
        ELSE parsed_dictionary[key]]

(***************************************************************************)
(* Periodic table: element[Z] is the symbol of atomic number Z, and the    *)
(* lookup fails for a Z outside the table.                                 *)
(***************************************************************************)
ElementTable == <<
    "H", "He", "Li", "Be", "B", "C", "N", "O", "F", "Ne",
    "Na", "Mg", "Al", "Si", "P", "S", "Cl", "Ar", "K", "Ca",
    "Sc", "Ti", "V", "Cr", "Mn", "Fe", "Co", "Ni", "Cu", "Zn",
    "Ga", "Ge", "As", "Se", "Br", "Kr", "Rb", "Sr", "Y", "Zr",
    "Nb", "Mo", "Tc", "Ru", "Rh", "Pd", "Ag", "Cd", "In", "Sn",
    "Sb", "Te", "I", "Xe", "Cs", "Ba", "La", "Ce", "Pr", "Nd",
    "Pm", "Sm", "Eu", "Gd", "Tb", "Dy", "Ho", "Er", "Tm", "Yb",
    "Lu", "Hf", "Ta", "W", "Re", "Os", "Ir", "Pt", "Au", "Hg",
    "Tl", "Pb", "Bi", "Po", "At", "Rn", "Fr", "Ra", "Ac", "Th",
    "Pa", "U", "Np", "Pu", "Am", "Cm", "Bk", "Cf", "Es", "Fm",
    "Md", "No", "Lr", "Rf", "Db", "Sg", "Bh", "Hs", "Mt", "Ds",
    "Rg", "Cn", "Nh", "Fl", "Mc", "Lv", "Ts", "Og">>

KnownZ(Z) == Z \in 1..Len(ElementTable)

element(Z) == ElementTable[Z]

(***************************************************************************)
(* Values of a dict, and the nodes handed to self.out.                     *)
(***************************************************************************)
NdArray(dtype, seq) == [type |-> "ndarray", dtype |-> dtype, val |-> seq]
PyList(seq) == [type |-> "list", dtype |-> "", val |-> seq]
PyBool(b) == [type |-> "bool", dtype |-> "", val |-> b]
PyFloatValue(x) == [type |-> "float", dtype |-> "", val |-> x]

EmptyDict == [key \in {} |-> PyBool(FALSE)]

StructureData(fname) == [cls |-> "StructureData", from |-> fname, dict |-> EmptyDict]
Dict(d) == [cls |-> "Dict", from |-> "", dict |-> d]

Return(code) == [kind |-> "return", value |-> code]
Raise(exc) == [kind |-> "raise", value |-> exc]
Running == [kind |-> "running", value |-> ""]

\* Lines 33-34: the two file names, read from the process class.
fname_out == "_OUTPUT_FILE"
fname_relaxed == "_RELAX_COORDS_FILE"

(***************************************************************************)
(* The inputs an invocation can meet.                                      *)
(***************************************************************************)
SeqsUpTo(S, n) == UNION {[1..k -> S] : k \in 0..n}

FloatValues == {NaN, Inf(1), Inf(-1), Fin(1, 1, 0)}
AtomicNumbers == {1, 6, 8, 200}
OptdoneChoices == {"absent", "True", "False"}

\* What ccread(handler.name) followed by getattributes() can do: hand back
\* the record, hand back no object (None), or raise.
ReaderOutcomes == {"object", "None", "FormatError", "OutputParsingError"}

Record(opt, atomnos, energies, enthalpy) ==
    LET base == ("atomnos" :> NdArray("int64", atomnos))
                @@ ("scfenergies" :> NdArray("float64", energies))
                @@ ("enthalpy" :> PyFloatValue(enthalpy))
    IN  IF opt = "absent" THEN base
        ELSE base @@ ("optdone" :> PyBool(opt = "True"))

Records ==
    {Record(opt, atomnos, energies, enthalpy) :
        opt \in OptdoneChoices,
        atomnos \in SeqsUpTo(AtomicNumbers, MaxAtoms),
        energies \in SeqsUpTo(FloatValues, MaxLen),
        enthalpy \in {NaN, Fin(1, 1, 0)}}

Init ==
    /\ retrieved_exists \in BOOLEAN
    /\ folder \in IF retrieved_exists THEN SUBSET {fname_out, fname_relaxed} ELSE {{}}
    /\ reader_outcome \in IF fname_out \in folder THEN ReaderOutcomes ELSE {"None"}
    /\ log_record \in IF reader_outcome = "object" THEN Records ELSE {EmptyDict}
    /\ pc = "Start"
    /\ parsed_dict = EmptyDict
    /\ outputs = <<>>
    /\ opened = <<>>
    /\ listed = 0
    /\ reader_calls = 0
    /\ result = Running

(***************************************************************************)
(* The steps of parse.                                                     *)
(***************************************************************************)

\* Variant of GetRetrieved without the try statement: NotExistent leaves parse.
GetRetrieved_Uncaught ==
    /\ pc = "Start"
    /\ IF retrieved_exists
       THEN /\ pc' = "CheckOutputFile"
            /\ result' = result
       ELSE /\ pc' = "Raised"
            /\ result' = Raise("NotExistent")
    /\ UNCHANGED <<retrieved_exists, folder, reader_outcome, log_record,
                   parsed_dict, outputs, opened, listed, reader_calls>>

\* Lines 28-31: out_folder = self.retrieved; NotExistent is caught and
\* answered with the exit code ERROR_NO_RETRIEVED_FOLDER.
GetRetrieved ==
    /\ pc = "Start"
    /\ IF retrieved_exists
       THEN /\ pc' = "CheckOutputFile"
            /\ result' = result
       ELSE /\ pc' = "Returned"
            /\ result' = Return("ERROR_NO_RETRIEVED_FOLDER")
    /\ UNCHANGED <<retrieved_exists, folder, reader_outcome, log_record,
                   parsed_dict, outputs, opened, listed, reader_calls>>

\* Variant of OutputFileListed that takes the primary log to be there.
OutputFileListed_Always == TRUE

\* Line 38: fname_out in out_folder._repository.list_object_names()
OutputFileListed == fname_out \in folder

\* Lines 33-39: the primary log must be listed, or OutputParsingError is raised.
CheckOutputFile ==
    /\ pc = "CheckOutputFile"
    /\ listed' = listed + 1
    /\ IF OutputFileListed
       THEN /\ pc' = "ReadOutput"
            /\ result' = result
       ELSE /\ pc' = "Raised"
            /\ result' = Raise("OutputParsingError")
    /\ UNCHANGED <<retrieved_exists, folder, reader_outcome, log_record,
                   parsed_dict, outputs, opened, reader_calls>>

\* Line 45: the one exception class the try statement around the reader catches.
Caught(exc) == exc = "OutputParsingError"

\* Lines 41-46: open the primary log, call ccread on it once and take the
\* attributes of the object it returns.  ccread returning None makes
\* parsed_obj.getattributes() raise AttributeError.  An exception leaves parse
\* unless the except clause catches it, which answers ERROR_OUTPUT_PARSING.
ReadOutput ==
    /\ pc = "ReadOutput"
    /\ IF fname_out \notin folder
       THEN /\ pc' = "Raised"
            /\ result' = Raise("FileNotFoundError")
            /\ UNCHANGED <<opened, reader_calls, parsed_dict>>
       ELSE /\ opened' = Append(opened, fname_out)
            /\ reader_calls' = reader_calls + 1
            /\ IF reader_outcome = "object"
               THEN /\ parsed_dict' = log_record
                    /\ pc' = "RemoveNan"
                    /\ result' = result
               ELSE LET exc == IF reader_outcome = "None" THEN "AttributeError"
                               ELSE reader_outcome
                    IN  /\ parsed_dict' = parsed_dict
                        /\ IF Caught(exc)
                           THEN /\ pc' = "Returned"
                                /\ result' = Return("ERROR_OUTPUT_PARSING")
                           ELSE /\ pc' = "Raised"
                                /\ result' = Raise(exc)
    /\ UNCHANGED <<retrieved_exists, folder, reader_outcome, log_record,
                   outputs, listed>>

\* Line 71: output_dict = _remove_nan(parsed_dict); the dict is updated in
\* place, so output_dict and parsed_dict are one object from here on.
RemoveNan ==
    /\ pc = "RemoveNan"
    /\ parsed_dict' = _remove_nan(parsed_dict)
    /\ pc' = "RelaxedStructure"
    /\ UNCHANGED <<retrieved_exists, folder, reader_outcome, log_record,
                   outputs, opened, listed, reader_calls, result>>

\* Variant of optdone whose default is True.
optdone_DefaultTrue(d) == IF "optdone" \in DOMAIN d THEN d["optdone"].val ELSE TRUE

\* Line 75: parsed_dict.get('optdone', False)
optdone(d) == IF "optdone" \in DOMAIN d THEN d["optdone"].val ELSE FALSE

\* Variant of RelaxedStructure that passes over a relaxed geometry the folder
\* does not hold.
RelaxedStructure_SkipMissing ==
    /\ pc = "RelaxedStructure"
    /\ IF optdone(parsed_dict) /\ fname_relaxed \in folder
       THEN /\ opened' = Append(opened, fname_relaxed)
            /\ outputs' = Append(outputs,
                   [label |-> "relaxed_structure", node |-> StructureData(fname_relaxed)])
       ELSE UNCHANGED <<opened, outputs>>
    /\ pc' = "Elements"
    /\ UNCHANGED <<retrieved_exists, folder, reader_outcome, log_record,
                   parsed_dict, listed, reader_calls, result>>

\* Lines 75-78: for a finished optimisation the relaxed geometry is opened
\* (opening a file the folder does not hold raises), a StructureData is built
\* from it and registered as relaxed_structure.
RelaxedStructure ==
    /\ pc = "RelaxedStructure"
    /\ IF optdone(parsed_dict)
       THEN IF fname_relaxed \in folder
            THEN /\ opened' = Append(opened, fname_relaxed)
                 /\ outputs' = Append(outputs,
                        [label |-> "relaxed_structure", node |-> StructureData(fname_relaxed)])
                 /\ pc' = "Elements"
                 /\ result' = result
            ELSE /\ pc' = "Raised"
                 /\ result' = Raise("FileNotFoundError")
                 /\ UNCHANGED <<opened, outputs>>
       ELSE /\ pc' = "Elements"
            /\ UNCHANGED <<opened, outputs, result>>
    /\ UNCHANGED <<retrieved_exists, folder, reader_outcome, log_record,
                   parsed_dict, listed, reader_calls>>

RECURSIVE KnownSymbols(_)
KnownSymbols(atomnos) ==
    IF atomnos = <<>> THEN <<>>
    ELSE IF KnownZ(Head(atomnos))
         THEN <<element(Head(atomnos))>> \o KnownSymbols(Tail(atomnos))
         ELSE KnownSymbols(Tail(atomnos))

\* Variant of elements_of that leaves out the atoms without a symbol.
elements_of_SkipUnknown(atomnos) == [ok |-> TRUE, val |-> KnownSymbols(atomnos)]

\* Line 86: [pt.element[Z] for Z in output_dict['atomnos'].tolist()]; the
\* comprehension fails as a whole when one lookup fails.
elements_of(atomnos) ==
    IF \A i \in 1..Len(atomnos) : KnownZ(atomnos[i])
    THEN [ok |-> TRUE, val |-> [i \in 1..Len(atomnos) |-> element(atomnos[i])]]
    ELSE [ok |-> FALSE, val |-> <<>>]

\* Lines 84-86: the elements field is added to output_dict.
Elements ==
    /\ pc = "Elements"
    /\ IF "atomnos" \notin DOMAIN parsed_dict
       THEN /\ pc' = "Raised"
            /\ result' = Raise("KeyError")
            /\ parsed_dict' = parsed_dict
       ELSE LET looked == elements_of(parsed_dict["atomnos"].val)
            IN  IF looked.ok
                THEN /\ parsed_dict' = ("elements" :> PyList(looked.val)) @@ parsed_dict
                     /\ pc' = "OutputParameters"
                     /\ result' = result
                ELSE /\ pc' = "Raised"
                     /\ result' = Raise("LookupError")
                     /\ parsed_dict' = parsed_dict
    /\ UNCHANGED <<retrieved_exists, folder, reader_outcome, log_record,
                   outputs, opened, listed, reader_calls>>

\* Lines 88-90: the record is registered as output_parameters and parse
\* returns ExitCode(0).
OutputParameters ==
    /\ pc = "OutputParameters"
    /\ outputs' = Append(outputs, [label |-> "output_parameters", node |-> Dict(parsed_dict)])
    /\ pc' = "Returned"
    /\ result' = Return("0")
    /\ UNCHANGED <<retrieved_exists, folder, reader_outcome, log_record,
                   parsed_dict, opened, listed, reader_calls>>

Next ==
    \/ GetRetrieved
    \/ CheckOutputFile
    \/ ReadOutput
    \/ RemoveNan
    \/ RelaxedStructure
    \/ Elements
    \/ OutputParameters

Spec == Init /\ [][Next]_vars

(***************************************************************************)
(* Vocabulary of the properties.                                           *)
(***************************************************************************)
Ended == pc \in {"Returned", "Raised"}
Succeeded == result = Return("0")
Registered(label) == \E i \in DOMAIN outputs : outputs[i].label = label
Count(label) == Cardinality({i \in DOMAIN outputs : outputs[i].label = label})
WasOpened(fname) == \E i \in DOMAIN opened : opened[i] = fname
\* _remove_nan has been applied to parsed_dict.
Sanitized == DOMAIN parsed_dict # {} /\ pc # "RemoveNan"
\* The reader handed back a record whose optdone field is there and true.
OptDoneRecord ==
    /\ reader_outcome = "object"
    /\ "optdone" \in DOMAIN log_record
    /\ log_record["optdone"].val = TRUE
UnknownAtom ==
    /\ reader_outcome = "object"
    /\ \E i \in DOMAIN log_record["atomnos"].val : ~KnownZ(log_record["atomnos"].val[i])

(***************************************************************************)
(* C1.  No partial results: an ended parse has either registered           *)
(* output_parameters (and relaxed_structure exactly when optdone is true)  *)
(* and returned success, or has registered nothing and ended in an error;  *)
(* relaxed_structure is never registered without output_parameters.        *)
(***************************************************************************)
C1_NoPartialResults ==
    Ended =>
        \/ /\ Succeeded
           /\ Registered("output_parameters")
           /\ Registered("relaxed_structure") <=> OptDoneRecord
        \/ /\ ~Succeeded
           /\ outputs = <<>>

(***************************************************************************)
(* C2.  Sanitizer totality: once _remove_nan has run, every element of     *)
(* every float array of the record is finite, and the three replacement    *)
(* values are finite.                                                      *)
(***************************************************************************)
C2_SanitizerTotality ==
    /\ isfinite(PyFloat(1, NanSentinel, 0))
    /\ Sanitized =>
         \A key \in DOMAIN parsed_dict :
            (isinstance_ndarray(parsed_dict[key]) /\ parsed_dict[key].dtype = "float64")
                => \A i \in DOMAIN parsed_dict[key].val : isfinite(parsed_dict[key].val[i])

(***************************************************************************)
(* C3.  A primary log that is present but that the reader cannot interpret *)
(* ends parse with the exit code ERROR_OUTPUT_PARSING, after exactly one   *)
(* call of the reader and with no output registered.                       *)
(***************************************************************************)
C3_UnparseableLog ==
    (Ended /\ retrieved_exists /\ fname_out \in folder /\ reader_outcome # "object") =>
        /\ result = Return("ERROR_OUTPUT_PARSING")
        /\ reader_calls = 1
        /\ outputs = <<>>

(***************************************************************************)
(* C4.  When the retrieved folder exists and does not list the primary     *)
(* log, the reader is never called, no file is opened, no output is        *)
(* registered, and parse ends by raising OutputParsingError (never with    *)
(* a returned code, so never with success).                                *)
(***************************************************************************)
C4_MissingLog ==
    (retrieved_exists /\ fname_out \notin folder) =>
        /\ reader_calls = 0
        /\ opened = <<>>
        /\ outputs = <<>>
        /\ pc # "Returned"
        /\ Ended => result = Raise("OutputParsingError")

C4_Witness ==
    retrieved_exists /\ fname_out \notin folder /\ pc = "Raised" /\ listed = 1

(***************************************************************************)
(* C5.  When the retrieved folder does not exist, the first step of parse  *)
(* ends it with the exit code ERROR_NO_RETRIEVED_FOLDER: nothing is        *)
(* listed or opened, the reader is not called, no output is registered.    *)
(***************************************************************************)
C5_NoRetrievedFolder ==
    ~retrieved_exists =>
        /\ listed = 0
        /\ opened = <<>>
        /\ reader_calls = 0
        /\ outputs = <<>>
        /\ pc \in {"Start", "Returned"}
        /\ pc = "Returned" => result = Return("ERROR_NO_RETRIEVED_FOLDER")

C5_Witness ==
    ~retrieved_exists /\ pc = "Returned"

C7_RelaxedFileMissing ==
    (OptDoneRecord /\ fname_relaxed \notin folder) =>
        /\ pc \notin {"Elements", "OutputParameters", "Returned"}
        /\ ~Succeeded
        /\ ~Registered("output_parameters")
        /\ Ended => result = Raise("FileNotFoundError")

C7_Witness ==
    OptDoneRecord /\ fname_relaxed \notin folder /\ pc = "Raised"

(***************************************************************************)
(* C8.  Enrichment correspondence: after a successful parse the registered *)
(* record has an elements field as long as atomnos whose i-th entry is the *)
(* symbol of atomnos[i]; an atomic number without a symbol makes the parse *)
(* fail, with no record registered.                                        *)
(***************************************************************************)
C8_EnrichmentCorrespondence ==
    /\ Succeeded =>
         /\ Count("output_parameters") = 1
         /\ \A k \in DOMAIN outputs :
              outputs[k].label = "output_parameters" =>
                LET d == outputs[k].node.dict
                IN  /\ "elements" \in DOMAIN d
                    /\ d["atomnos"].val = log_record["atomnos"].val
                    /\ Len(d["elements"].val) = Len(d["atomnos"].val)
                    /\ \A i \in 1..Len(d["atomnos"].val) :
                          /\ KnownZ(d["atomnos"].val[i])
                          /\ d["elements"].val[i] = element(d["atomnos"].val[i])
    /\ UnknownAtom => ~Succeeded /\ ~Registered("output_parameters")

C8_Witness ==
    /\ Succeeded
    /\ log_record["atomnos"].val = <<6, 8>>
    /\ \E k \in DOMAIN outputs :
          /\ outputs[k].label = "output_parameters"
          /\ outputs[k].node.dict["elements"].val = <<"C", "O">>

(***************************************************************************)
(* C9.  Step order: the elements field is in place before the              *)
(* relaxed-geometry file is opened or relaxed_structure is registered, so  *)
(* a parse that ends in a failed lookup has never opened that file.        *)
(***************************************************************************)
C9_EnrichBeforeRelax ==
    /\ (WasOpened(fname_relaxed) \/ Registered("relaxed_structure"))
          => "elements" \in DOMAIN parsed_dict
    /\ result = Raise("LookupError") => ~WasOpened(fname_relaxed)

(***************************************************************************)
(* C10.  Sanitizer idempotence: applying _remove_nan to a record that      *)
(* _remove_nan produced gives the same record, with the same field names.  *)
(***************************************************************************)
C10_SanitizerIdempotent ==
    Sanitized =>
        /\ DOMAIN _remove_nan(parsed_dict) = DOMAIN parsed_dict
        /\ _remove_nan(parsed_dict) = parsed_dict

C10_Witness ==
    /\ pc = "RelaxedStructure"
    /\ log_record["scfenergies"].val = <<NaN, Inf(1)>>
    /\ parsed_dict # log_record

====
